---------------------------- MODULE Spec2Model ----------------------------
(***************************************************************************)
(* Campus Exchange backend: the alembic migrations that re-key users.id,   *)
(* the listing endpoints, the AI endpoints and the admin bootstrap.        *)
(*                                                                         *)
(* Every cell value of the database is a tuple of strings, so that any two *)
(* values can be compared: a text value is the tuple of its characters, an *)
(* integer n is <<"#", digit>>, SQL NULL is <<"NULL">> and the value of a  *)
(* column that does not exist is <<"ABSENT">>.                             *)
(***************************************************************************)
EXTENDS Integers, Sequences, FiniteSets, TLC

VARIABLES
    users,      \* the users table: a set of rows
    rows,       \* the rows of the eleven tables that reference users
    schema,     \* columns, keys, indexes and foreign keys
    rev,        \* the alembic revision the database is at
    pc,         \* position of the running upgrade() of b8f4c2a1d9e3 (0: not running)
    log,        \* the steps of upgrade() executed so far, in order
    lastDel,    \* the last DELETE FROM users and the state it ran in
    downRes,    \* outcome of downgrade() of b8f4c2a1d9e3
    pre,        \* the database as it was before upgrade() (what a rollback restores)
    settings,   \* app.core.config.settings
    listings,   \* the listings table: listing id -> row
    nextId,     \* the next listings.id the database hands out
    last,       \* the last listing request: who asked what, the answer, the effects
    ai,         \* the AI endpoints: calls made so far and the last answer
    boot        \* create_single_admin in each application instance

migVars == <<users, rows, schema, rev, pc, log, lastDel, downRes, pre>>
appVars == <<listings, nextId, last>>
migOnly == <<rows, schema, rev, pc, log, lastDel, downRes, pre>>
nonMigVars == <<settings, listings, nextId, last, ai, boot>>
nonAppVars == <<migOnly, ai, boot>>
nonAiVars == <<users, migOnly, settings, listings, nextId, last, boot>>
nonBootVars == <<migOnly, settings, listings, nextId, last, ai>>

vars == <<users, rows, schema, rev, pc, log, lastDel, downRes, pre,
          settings, listings, nextId, last, ai, boot>>

-----------------------------------------------------------------------------
(* Bounds *)

MaxUsers == 2
MaxRows == 1
MaxListings == 1
MaxFieldsSet == 2
MaxAiCalls == 2
MaxInstances == 2

-----------------------------------------------------------------------------
(* Values *)

NULL == <<"NULL">>
ABSENT == <<"ABSENT">>
Digit == <<"1", "2", "3", "4", "5", "6", "7", "8", "9">>
IntVal(n) == <<"#", Digit[n]>>

\* The e-mail addresses of the modelled databases: the first two share their
\* prefix, the third holds two '@', the last holds none.
Emails ==
    << <<"a", "@", "x">>, <<"a", "@", "y">>, <<"b", "@", "x", "@", "y">>, <<"y">> >>

\* Index of the first occurrence of d in s, 0 when there is none.
RECURSIVE IndexFrom(_, _, _)
IndexFrom(s, d, i) ==
    IF i > Len(s) THEN 0
    ELSE IF s[i] = d THEN i
    ELSE IndexFrom(s, d, i + 1)

\* A mis-split: the field after the last delimiter instead of the n-th.
RECURSIVE SplitPartLast(_, _, _)
SplitPartLast(s, d, n) ==
    LET i == IndexFrom(s, d, 1)
    IN  IF i = 0 THEN s ELSE SplitPartLast(SubSeq(s, i + 1, Len(s)), d, n)

\* SPLIT_PART(s, d, n): the n-th field of s split at d, '' when there are fewer.
RECURSIVE SplitPart(_, _, _)
SplitPart(s, d, n) ==
    LET i == IndexFrom(s, d, 1)
    IN  IF n = 1
        THEN IF i = 0 THEN s ELSE SubSeq(s, 1, i - 1)
        ELSE IF i = 0 THEN <<>>
        ELSE SplitPart(SubSeq(s, i + 1, Len(s)), d, n - 1)

-----------------------------------------------------------------------------
(* The seventeen referencing columns *)

tables_with_user_fks ==
    << [t |-> "blocked_users", c |-> "user_id"],
       [t |-> "blocked_users", c |-> "blocked_by"],
       [t |-> "listings", c |-> "owner_id"],
       [t |-> "notifications", c |-> "user_id"],
       [t |-> "verifications", c |-> "user_id"],
       [t |-> "chat_messages", c |-> "sender_id"],
       [t |-> "chat_messages", c |-> "receiver_id"],
       [t |-> "chat_rooms", c |-> "participant1_id"],
       [t |-> "chat_rooms", c |-> "participant2_id"],
       [t |-> "favorites", c |-> "user_id"],
       [t |-> "messages", c |-> "sender_id"],
       [t |-> "messages", c |-> "receiver_id"],
       [t |-> "reports", c |-> "reporter_id"],
       [t |-> "reports", c |-> "reported_user_id"],
       [t |-> "reports", c |-> "reviewed_by"],
       [t |-> "message_reactions", c |-> "user_id"],
       [t |-> "admin_activity_log", c |-> "admin_id"] >>

RefIdx == 1..Len(tables_with_user_fks)
Tables == { tables_with_user_fks[i].t : i \in RefIdx }
ColsOf(t) == { tables_with_user_fks[i].c : i \in { j \in RefIdx : tables_with_user_fks[j].t = t } }
RefOf(t, c) == CHOOSE i \in RefIdx : tables_with_user_fks[i] = [t |-> t, c |-> c]

\* "These can be NULL"
CanBeNull(c) == c \in {"reported_user_id", "reviewed_by", "admin_id"}


-----------------------------------------------------------------------------
(* Revisions *)

down_revision == "325f6e4ea397"
revision == "b8f4c2a1d9e3"
revision254 == "254ce896d541"
revision491 == "491b07444172"

-----------------------------------------------------------------------------
(* The database before the upgrade *)

\* All subsets of S with at most k elements.
RECURSIVE SubsetsUpTo(_, _)
SubsetsUpTo(S, k) ==
    IF k = 0 THEN {{}}
    ELSE LET P == SubsetsUpTo(S, k - 1)
         IN  P \cup { p \cup {x} : p \in P, x \in S }

\* Users with pairwise different e-mail addresses and the ids 1..n (which user
\* holds which id does not matter to any statement of the migrations).
UserRow(i, e) ==
    [id |-> IntVal(i), new_id |-> ABSENT, email |-> e, was_id |-> IntVal(i),
     is_admin |-> FALSE, is_verified |-> TRUE]

UserTables ==
    { { UserRow(Cardinality({ j \in S : j <= k }), Emails[k]) : k \in S } :
        S \in SubsetsUpTo(1..Len(Emails), MaxUsers) }

\* The rows a table can hold while its foreign keys to users(id) are in force:
\* every value is the id of a user, or NULL in a column that can be NULL.
RowShapes(us) ==
    LET ids == { u.id : u \in us }
    IN  UNION { { [t |-> t, col |-> f, tmp |-> [c \in ColsOf(t) |-> ABSENT], was |-> f] :
                    f \in { g \in [ColsOf(t) -> ids \cup {NULL}] :
                              \A c \in ColsOf(t) : g[c] = NULL => CanBeNull(c) } } :
                t \in Tables }

SchemaBefore ==
    [id_type |-> "int", new_id |-> "absent", new_id_type |-> "none",
     uq_new_id |-> FALSE, pkey |-> TRUE, ix_id |-> "index", seq |-> TRUE,
     fk |-> [i \in RefIdx |-> "noaction"],
     ref_type |-> [i \in RefIdx |-> "int"],
     ref_notnull |-> [i \in RefIdx |-> ~CanBeNull(tables_with_user_fks[i].c)],
     tmp |-> [i \in RefIdx |-> FALSE]]

\* The defaults of class Settings.
DefaultSettings ==
    [STORAGE_BACKEND |-> "LOCAL",
     AI_PRICE_SUGGEST_ENABLED |-> TRUE,
     AI_DUPLICATE_CHECK_ENABLED |-> TRUE,
     AI_RECOMMEND_ENABLED |-> TRUE,
     ADMIN_EMAIL |-> <<"A", "d", "@", "x">>]

NoRequest == [op |-> "none"]

\* No listing request has been made.
AppIdle ==
    /\ listings = <<>>
    /\ nextId = 1
    /\ last = NoRequest

\* No AI request has been made.
AiIdle == ai = [calls |-> 0, queries |-> 0, resp |-> [endpoint |-> "none"]]

\* No application instance has started.
BootIdle ==
    boot = [inst |-> [i \in 1..MaxInstances |-> [pc |-> "down", found |-> FALSE]],
            inserted |-> 0, users0 |-> {}]

NoDelete == [id |-> ABSENT, ok |-> FALSE, fk |-> [i \in RefIdx |-> "none"],
             users0 |-> {}, rows0 |-> {}]

\* No migration is running: the schema is that of the last revision.
MigIdle ==
    /\ rows = {}
    /\ schema = [SchemaBefore EXCEPT !.id_type = "str", !.ix_id = "unique", !.seq = FALSE,
                                     !.ref_type = [i \in RefIdx |-> "str"]]
    /\ rev = revision491
    /\ pc = 0
    /\ log = <<>>
    /\ lastDel = NoDelete
    /\ downRes = "none"
    /\ pre = [users |-> {}, rows |-> {}]

InitMig ==
    /\ users \in UserTables
    /\ rows \in SubsetsUpTo(RowShapes(users), MaxRows)
    /\ schema = SchemaBefore
    /\ rev = down_revision
    /\ pc = 1
    /\ log = <<>>
    /\ lastDel = NoDelete
    /\ downRes = "none"
    /\ pre = [users |-> users, rows |-> rows]
    /\ settings = DefaultSettings
    /\ AppIdle
    /\ AiIdle
    /\ BootIdle

-----------------------------------------------------------------------------
(* upgrade() of b8f4c2a1d9e3 *)

\* A wrong order: the foreign keys recreated before the primary key is swapped.
UpgradeOrderFkFirst ==
    << "add_users_new_id", "backfill_users", "constrain_new_id",
       "add_temp_columns", "backfill_refs", "drop_foreign_keys",
       "swap_ref_columns", "create_foreign_keys", "swap_users_pk" >>

\* The statements of upgrade(), in the order of the source.
UpgradeOrder ==
    << "add_users_new_id", "backfill_users", "constrain_new_id",
       "add_temp_columns", "backfill_refs", "drop_foreign_keys",
       "swap_ref_columns", "swap_users_pk", "create_foreign_keys" >>

AtStep(name) ==
    /\ rev = down_revision
    /\ pc \in 1..Len(UpgradeOrder)
    /\ UpgradeOrder[pc] = name

\* The step succeeded: go on, and stamp the revision after the last one.
Advance(name) ==
    /\ log' = Append(log, name)
    /\ pc' = pc + 1
    /\ rev' = IF pc + 1 > Len(UpgradeOrder) THEN revision ELSE rev
    /\ UNCHANGED <<lastDel, downRes, pre, nonMigVars>>

\* A statement failed: the transaction is rolled back and the revision stays.
Abort(name) ==
    /\ log' = Append(log, name)
    /\ pc' = 0
    /\ users' = pre.users
    /\ rows' = pre.rows
    /\ schema' = SchemaBefore
    /\ UNCHANGED <<rev, lastDel, downRes, pre, nonMigVars>>

AddUsersNewId ==
    /\ AtStep("add_users_new_id")
    /\ IF schema.new_id # "absent"
       THEN Abort("add_users_new_id")
       ELSE /\ users' = { [u EXCEPT !.new_id = NULL] : u \in users }
            /\ schema' = [schema EXCEPT !.new_id = "nullable", !.new_id_type = "str"]
            /\ UNCHANGED rows
            /\ Advance("add_users_new_id")

BackfillUsers ==
    /\ AtStep("backfill_users")
    /\ IF schema.new_id = "absent"
       THEN Abort("backfill_users")
       ELSE /\ users' = { IF u.new_id = NULL
                          THEN [u EXCEPT !.new_id = SplitPart(u.email, "@", 1)]
                          ELSE u : u \in users }
            /\ UNCHANGED <<rows, schema>>
            /\ Advance("backfill_users")

\* No two rows of the table agree on the column (NULLs never collide).
IsUnique(us, column) ==
    \A u, v \in us : (u # v /\ u[column] # NULL) => u[column] # v[column]

ConstrainNewId ==
    /\ AtStep("constrain_new_id")
    /\ IF \/ schema.new_id = "absent"
          \/ \E u \in users : u.new_id = NULL
          \/ ~IsUnique(users, "new_id")
       THEN Abort("constrain_new_id")
       ELSE /\ schema' = [schema EXCEPT !.new_id = "notnull", !.uq_new_id = TRUE]
            /\ UNCHANGED <<users, rows>>
            /\ Advance("constrain_new_id")

AddTempColumns ==
    /\ AtStep("add_temp_columns")
    /\ IF \E i \in RefIdx : schema.tmp[i]
       THEN Abort("add_temp_columns")
       ELSE /\ rows' = { [r EXCEPT !.tmp = [c \in ColsOf(r.t) |-> NULL]] : r \in rows }
            /\ schema' = [schema EXCEPT !.tmp = [i \in RefIdx |-> TRUE]]
            /\ UNCHANGED users
            /\ Advance("add_temp_columns")

\* SELECT SPLIT_PART(email, '@', 1) FROM users WHERE users.id = v
\* (a scalar subquery: NULL when no row matches).
PrefixOfUser(us, v) ==
    IF \E u \in us : u.id = v
    THEN SplitPart((CHOOSE u \in us : u.id = v).email, "@", 1)
    ELSE NULL

BackfillRefs ==
    /\ AtStep("backfill_refs")
    /\ IF \/ \E i \in RefIdx : ~schema.tmp[i] \/ schema.ref_type[i] # schema.id_type
       THEN Abort("backfill_refs")
       ELSE /\ rows' = { [r EXCEPT !.tmp =
                            [c \in ColsOf(r.t) |->
                                IF CanBeNull(c)
                                THEN IF r.col[c] # NULL
                                     THEN PrefixOfUser(users, r.col[c])
                                     ELSE r.tmp[c]
                                ELSE PrefixOfUser(users, r.col[c])]] : r \in rows }
            /\ UNCHANGED <<users, schema>>
            /\ Advance("backfill_refs")

DropForeignKeys ==
    /\ AtStep("drop_foreign_keys")
    /\ IF \E i \in RefIdx : schema.fk[i] = "none"
       THEN Abort("drop_foreign_keys")
       ELSE /\ schema' = [schema EXCEPT !.fk = [i \in RefIdx |-> "none"]]
            /\ UNCHANGED <<users, rows>>
            /\ Advance("drop_foreign_keys")

SwapRefColumns ==
    /\ AtStep("swap_ref_columns")
    /\ IF \/ \E i \in RefIdx : ~schema.tmp[i]
          \/ \E r \in rows : \E c \in ColsOf(r.t) : ~CanBeNull(c) /\ r.tmp[c] = NULL
       THEN Abort("swap_ref_columns")
       ELSE /\ rows' = { [r EXCEPT !.col = r.tmp,
                                   !.tmp = [c \in ColsOf(r.t) |-> ABSENT]] : r \in rows }
            /\ schema' = [schema EXCEPT
                            !.fk = [i \in RefIdx |-> "none"],
                            !.tmp = [i \in RefIdx |-> FALSE],
                            !.ref_type = [i \in RefIdx |-> "str"],
                            !.ref_notnull =
                                [i \in RefIdx |-> ~CanBeNull(tables_with_user_fks[i].c)]]
            /\ UNCHANGED users
            /\ Advance("swap_ref_columns")

SwapUsersPk ==
    /\ AtStep("swap_users_pk")
    /\ IF \/ ~schema.pkey \/ schema.ix_id = "none" \/ schema.new_id = "absent"
          \/ \E i \in RefIdx : schema.fk[i] # "none"
          \/ \E u \in users : u.new_id = NULL
          \/ ~IsUnique(users, "new_id")
       THEN Abort("swap_users_pk")
       ELSE /\ users' = { [u EXCEPT !.id = u.new_id, !.new_id = ABSENT] : u \in users }
            /\ schema' = [schema EXCEPT !.id_type = schema.new_id_type,
                                        !.new_id = "absent", !.new_id_type = "none",
                                        !.pkey = TRUE, !.ix_id = "unique", !.seq = FALSE]
            /\ UNCHANGED rows
            /\ Advance("swap_users_pk")

\* ondelete= of the foreign keys that upgrade() creates.
UpgradeOnDeleteNone(i) == "noaction"

UpgradeOnDelete(i) ==
    IF tables_with_user_fks[i].t \in {"blocked_users", "message_reactions"}
    THEN "cascade"
    ELSE "noaction"

\* Every value of every referencing column is NULL or the id of a user.
RefsValid(us, rs) ==
    \A r \in rs : \A c \in ColsOf(r.t) :
        r.col[c] = NULL \/ \E u \in us : u.id = r.col[c]

CreateForeignKeys ==
    /\ AtStep("create_foreign_keys")
    /\ IF \/ \E i \in RefIdx : schema.fk[i] # "none" \/ schema.ref_type[i] # schema.id_type
          \/ ~schema.pkey
          \/ ~RefsValid(users, rows)
       THEN Abort("create_foreign_keys")
       ELSE /\ schema' = [schema EXCEPT !.fk = [i \in RefIdx |-> UpgradeOnDelete(i)]]
            /\ UNCHANGED <<users, rows>>
            /\ Advance("create_foreign_keys")

Upgrade ==
    \/ AddUsersNewId
    \/ BackfillUsers
    \/ ConstrainNewId
    \/ AddTempColumns
    \/ BackfillRefs
    \/ DropForeignKeys
    \/ SwapRefColumns
    \/ SwapUsersPk
    \/ CreateForeignKeys

-----------------------------------------------------------------------------
(* upgrade() of 254ce896d541 and of 491b07444172 *)

Upgrade254SchemaNoCascade(s) ==
    [s EXCEPT !.fk[RefOf("notifications", "user_id")] = "noaction"]

\* drop notifications_user_id_fkey, create it again with ondelete='CASCADE'
Upgrade254Schema(s) ==
    [s EXCEPT !.fk[RefOf("notifications", "user_id")] = "cascade"]

Upgrade254 ==
    /\ rev = revision
    /\ IF schema.fk[RefOf("notifications", "user_id")] = "none"
       THEN UNCHANGED <<schema, rev>>
       ELSE /\ schema' = Upgrade254Schema(schema)
            /\ rev' = revision254
    /\ UNCHANGED <<users, rows, pc, log, lastDel, downRes, pre, nonMigVars>>

\* drop verifications_user_id_fkey, create it again with ondelete="CASCADE"
Upgrade491Schema(s) ==
    [s EXCEPT !.fk[RefOf("verifications", "user_id")] = "cascade"]

Upgrade491 ==
    /\ rev = revision254
    /\ IF schema.fk[RefOf("verifications", "user_id")] = "none"
       THEN UNCHANGED <<schema, rev>>
       ELSE /\ schema' = Upgrade491Schema(schema)
            /\ rev' = revision491
    /\ UNCHANGED <<users, rows, pc, log, lastDel, downRes, pre, nonMigVars>>

-----------------------------------------------------------------------------
(* DELETE FROM users WHERE id = u.id, under the foreign keys in force *)

\* The row references the user through a column whose foreign key is `how`.
RefersVia(s, r, uid, how) ==
    \E c \in ColsOf(r.t) : r.col[c] = uid /\ s.fk[RefOf(r.t, c)] = how

DeleteUser(u) ==
    /\ rev \in {revision, revision254, revision491}
    /\ LET cascaded == { r \in rows : RefersVia(schema, r, u.id, "cascade") }
           left == rows \ cascaded
           rejected == \E r \in left : RefersVia(schema, r, u.id, "noaction")
       IN  /\ users' = IF rejected THEN users ELSE users \ {u}
           /\ rows' = IF rejected THEN rows ELSE left
           /\ lastDel' = [id |-> u.id, ok |-> ~rejected, fk |-> schema.fk,
                          users0 |-> users, rows0 |-> rows]
    /\ UNCHANGED <<schema, rev, pc, log, downRes, pre, nonMigVars>>

-----------------------------------------------------------------------------
(* downgrade() of b8f4c2a1d9e3 *)

\* The collation of ORDER BY id, on the characters of the model.
CharOrder == <<"@", "a", "b", "x", "y">>
CharRank(ch) == CHOOSE i \in 1..Len(CharOrder) : CharOrder[i] = ch

RECURSIVE LexLess(_, _)
LexLess(a, b) ==
    IF b = <<>> THEN FALSE
    ELSE IF a = <<>> THEN TRUE
    ELSE IF a[1] # b[1] THEN CharRank(a[1]) < CharRank(b[1])
    ELSE LexLess(Tail(a), Tail(b))

\* enumerate(SELECT id FROM users ORDER BY id, 1)
NewIntId(us, u) == IntVal(1 + Cardinality({ v \in us : LexLess(v.id, u.id) }))

\* downgrade() drops users_pkey and the column users.id and never touches the
\* referencing columns or their foreign keys: the database refuses the drop
\* while a foreign key depends on users.id, and the transaction is rolled back.
Downgrade ==
    /\ rev = revision
    /\ downRes = "none"
    /\ IF \E i \in RefIdx : schema.fk[i] # "none"
       THEN /\ downRes' = "failed"
            /\ UNCHANGED <<users, schema, rev>>
       ELSE /\ users' = { [u EXCEPT !.id = NewIntId(users, u)] : u \in users }
            /\ schema' = [schema EXCEPT !.id_type = "int", !.pkey = TRUE,
                                        !.ix_id = "index", !.seq = TRUE]
            /\ rev' = down_revision
            /\ downRes' = "done"
    /\ UNCHANGED <<rows, pc, log, lastDel, pre, nonMigVars>>

-----------------------------------------------------------------------------
(* The migrations and the deletes that run between them *)

NextMig ==
    \/ Upgrade
    \/ Upgrade254
    \/ Upgrade491
    \/ \E u \in users : DeleteUser(u)
    \/ Downgrade

SpecMig == InitMig /\ [][NextMig]_vars

-----------------------------------------------------------------------------
(* Properties of the migrations *)

Chars(s) == { s[i] : i \in 1..Len(s) }

\* p is the part of e before its first '@' (all of e when e holds none).
BeforeFirstAt(p, e) ==
    /\ "@" \notin Chars(p)
    /\ \/ p = e
       \/ /\ Len(e) > Len(p)
          /\ SubSeq(e, 1, Len(p)) = p
          /\ e[Len(p) + 1] = "@"

\* upgrade() has completed and nothing has run since.
JustUpgraded == rev = revision /\ lastDel = NoDelete

\* C1: after upgrade() of b8f4c2a1d9e3 has completed, the users are those of
\* before, each with id equal to the part of its e-mail before the first '@',
\* and every referencing column holds the new id of the user its integer value
\* referenced before the upgrade, a NULL staying NULL.
C1_RekeyedByEmailPrefix ==
    JustUpgraded =>
        /\ schema.id_type = "str"
        /\ \A i \in RefIdx : schema.ref_type[i] = "str"
        /\ { [email |-> u.email, was_id |-> u.was_id] : u \in users }
             = { [email |-> u.email, was_id |-> u.id] : u \in pre.users }
        /\ \A u \in users : BeforeFirstAt(u.id, u.email)
        /\ \A r \in rows : \A c \in ColsOf(r.t) :
              IF r.was[c] = NULL
              THEN r.col[c] = NULL
              ELSE \E u \in users : u.was_id = r.was[c] /\ r.col[c] = u.id

\* C1 witness: an upgraded database in which a reports row names, by the new
\* id "b", the user b@x@y it named by integer before, its reviewed_by NULL.
C1_Witness ==
    /\ JustUpgraded
    /\ \E r \in rows : \E u \in users :
          /\ r.t = "reports"
          /\ u.email = <<"b", "@", "x", "@", "y">>
          /\ r.was["reporter_id"] = u.was_id
          /\ r.col["reporter_id"] = <<"b">>
          /\ r.col["reviewed_by"] = NULL

Pos(name) ==
    IF \E i \in 1..Len(log) : log[i] = name
    THEN CHOOSE i \in 1..Len(log) : log[i] = name
    ELSE 0

\* Step b has not run, or step a ran before it.
Before(a, b) == Pos(b) > 0 => (Pos(a) > 0 /\ Pos(a) < Pos(b))

\* C2 as stated: upgrade() drops the foreign keys first, then backfills the
\* derived string columns, then swaps the users primary key, then recreates the
\* foreign keys.
C2_DropBeforeBackfill ==
    /\ Before("drop_foreign_keys", "backfill_users")
    /\ Before("drop_foreign_keys", "backfill_refs")
    /\ Before("backfill_refs", "swap_users_pk")
    /\ Before("swap_users_pk", "create_foreign_keys")

\* C2 amended: upgrade() backfills the derived string columns first, while the
\* foreign keys are still in force, then drops the foreign keys, then swaps the
\* referencing columns and the users primary key, then recreates the foreign
\* keys; no column is swapped before the foreign keys have been dropped and no
\* foreign key is recreated before users.id is the new string primary key.
C2_BackfillBeforeDrop ==
    /\ Before("backfill_users", "backfill_refs")
    /\ Before("backfill_refs", "drop_foreign_keys")
    /\ Before("drop_foreign_keys", "swap_ref_columns")
    /\ Before("drop_foreign_keys", "swap_users_pk")
    /\ Before("swap_users_pk", "create_foreign_keys")
    /\ (Pos("backfill_refs") > 0 /\ Pos("drop_foreign_keys") = 0 /\ pc # 0)
          => \A i \in RefIdx : schema.fk[i] # "none"
    /\ (Pos("swap_ref_columns") > 0 /\ Pos("create_foreign_keys") = 0 /\ pc # 0)
          => \A i \in RefIdx : schema.fk[i] = "none"
    /\ (Pos("create_foreign_keys") > 0 /\ pc # 0)
          => schema.id_type = "str" /\ schema.pkey /\ schema.new_id = "absent"

\* C2 witness: upgrade() has run all its steps on a database with a row.
C2_Witness ==
    /\ rev = revision
    /\ Len(log) = Len(UpgradeOrder)
    /\ rows # {}
    /\ \A i \in RefIdx : schema.fk[i] # "none"

\* C3 as stated: once downgrade() of b8f4c2a1d9e3 has been run on an upgraded
\* database it has completed, users.id is an integer primary key again and each
\* referencing column is an integer column with its foreign key, holding the
\* value it held before the upgrade.
C3_RollbackRestores ==
    downRes # "none" =>
        /\ downRes = "done"
        /\ schema.id_type = "int" /\ schema.pkey
        /\ \A i \in RefIdx : schema.ref_type[i] = "int" /\ schema.fk[i] # "none"
        /\ \A u \in users : u.id = u.was_id
        /\ \A r \in rows : r.col = r.was

CascadeTablesOfUpgrade == {"blocked_users", "message_reactions"}

Names(r, uid) == \E c \in ColsOf(r.t) : r.col[c] = uid

\* C4: after upgrade() of b8f4c2a1d9e3 every referencing column has a foreign
\* key and no row references a missing user; a delete of a user removes the
\* blocked_users and message_reactions rows that name it, and a delete of a
\* user named through any of the other 14 columns is rejected and changes
\* nothing.
C4_ForeignKeysRestored ==
    rev = revision =>
        /\ \A i \in RefIdx : schema.fk[i] # "none"
        /\ \A r \in rows : \A c \in ColsOf(r.t) :
              r.col[c] = NULL \/ \E u \in users : u.id = r.col[c]
        /\ lastDel # NoDelete =>
              IF \E r \in lastDel.rows0 :
                    r.t \notin CascadeTablesOfUpgrade /\ Names(r, lastDel.id)
              THEN ~lastDel.ok /\ users = lastDel.users0 /\ rows = lastDel.rows0
              ELSE /\ lastDel.ok
                   /\ users = { u \in lastDel.users0 : u.id # lastDel.id }
                   /\ rows = { r \in lastDel.rows0 : ~Names(r, lastDel.id) }

\* C4 witness: right after the upgrade a user named by a blocked_users row was
\* deleted, and the row went with it.
C4_Witness ==
    /\ rev = revision
    /\ lastDel.ok
    /\ \E r \in lastDel.rows0 : r.t = "blocked_users" /\ Names(r, lastDel.id)
    /\ rows = {}

CascadeTablesAfter491 == CascadeTablesOfUpgrade \cup {"notifications", "verifications"}

\* C5: once 254ce896d541 and 491b07444172 are applied, a delete of a user is
\* never rejected because of notifications or verifications rows, it removes
\* every notifications and verifications row of that user and leaves those of
\* the other users as they were.
C5_CascadeOnNotificationsVerifications ==
    rev = revision491 =>
        /\ schema.fk[RefOf("notifications", "user_id")] = "cascade"
        /\ schema.fk[RefOf("verifications", "user_id")] = "cascade"
        /\ (lastDel # NoDelete /\ lastDel.fk = schema.fk) =>
              LET mine(r) == r.t \in {"notifications", "verifications"}
                  held == \E r \in lastDel.rows0 :
                             r.t \notin CascadeTablesAfter491 /\ Names(r, lastDel.id)
              IN  /\ ~held => lastDel.ok
                  /\ lastDel.ok =>
                        /\ ~\E u \in users : u.id = lastDel.id
                        /\ { r \in rows : mine(r) }
                             = { r \in lastDel.rows0 : mine(r) /\ ~Names(r, lastDel.id) }
                  /\ ~lastDel.ok => rows = lastDel.rows0 /\ users = lastDel.users0

\* C5 witness: with both migrations applied, a user with a notifications row
\* was deleted.
C5_Witness ==
    /\ rev = revision491
    /\ lastDel.ok
    /\ lastDel.fk = schema.fk
    /\ \E r \in lastDel.rows0 : r.t = "notifications" /\ Names(r, lastDel.id)
    /\ ~\E r \in rows : r.t = "notifications"

-----------------------------------------------------------------------------
(* The listing endpoints *)

\* str.strip(): leading and trailing blanks removed.
RECURSIVE LStrip(_)
LStrip(s) == IF s # <<>> /\ Head(s) = " " THEN LStrip(Tail(s)) ELSE s

RECURSIVE RStrip(_)
RStrip(s) ==
    IF s # <<>> /\ s[Len(s)] = " " THEN RStrip(SubSeq(s, 1, Len(s) - 1)) ELSE s

Strip(s) == RStrip(LStrip(s))

TextFields == {"title", "description", "category"}
Fields == TextFields \cup {"price", "images"}

\* The users that requests authenticate as: a is verified, b is not.
AppUser(name, verified) ==
    [id |-> <<name>>, new_id |-> ABSENT, email |-> <<name, "@", "x">>,
     was_id |-> <<name>>, is_admin |-> FALSE, is_verified |-> verified]

AppUsers == { AppUser("a", TRUE), AppUser("b", FALSE) }

\* Listing(title=..., ..., owner_id=user.id, status="ACTIVE") with its search vector
Listing(title, description, category, price, images, owner_id) ==
    [title |-> title, description |-> description, category |-> category,
     price |-> price, images |-> images, owner_id |-> owner_id,
     status |-> "ACTIVE",
     search_vector |-> <<title, description, category>>]

NoListing == [status |-> "NONE"]

\* db.query(Listing).filter(Listing.id == listing_id).first()
Exists(listing_id) == listing_id \in DOMAIN listings

Response(op, user, listing_id, payload, status, detail, trace) ==
    [op |-> op, user |-> user.id, verified |-> user.is_verified, id |-> listing_id,
     payload |-> payload, status |-> status, detail |-> detail,
     db |-> listings, trace |-> trace]

\* raise HTTPException(...): nothing is written.
Reject(op, user, listing_id, payload, status, detail) ==
    /\ last' = Response(op, user, listing_id, payload, status, detail, <<>>)
    /\ UNCHANGED <<listings, nextId>>

\* An ownership test that lets every authenticated user through.
IsOwnerAnyone(obj, user) == TRUE

\* obj.owner_id != user.id raises "Not owner"
IsOwner(obj, user) == obj.owner_id = user.id

\* A verification test that lets every user through.
VerifiedAnyone(user) == TRUE

\* not user.is_verified raises "User must be verified"
Verified(user) == user.is_verified

\* One upload per image, in order, each giving the url of the stored file.
UploadTrace(images) == [i \in 1..Len(images) |-> "upload"]
Urls(images) == [i \in 1..Len(images) |-> <<"url", images[i]>>]

CreateListing(user, form) ==
    /\ nextId <= MaxListings
    /\ IF ~Verified(user)
       THEN Reject("create", user, nextId, form, 403, "User must be verified")
       ELSE IF settings.STORAGE_BACKEND \notin {"LOCAL", "S3"}
       THEN Reject("create", user, nextId, form, 500, "Invalid storage backend")
       ELSE /\ listings' =
                  [i \in DOMAIN listings \cup {nextId} |->
                      IF i = nextId
                      THEN Listing(form.title, form.description, form.category,
                                   form.price, Urls(form.images), user.id)
                      ELSE listings[i]]
            /\ nextId' = nextId + 1
            /\ last' = Response("create", user, nextId, form, 200, "",
                                UploadTrace(form.images)
                                    \o <<"commit", "notify_listing_created">>)
    /\ UNCHANGED <<users, settings, nonAppVars>>

GetListing(listing_id) ==
    /\ last' = [op |-> "get", id |-> listing_id,
                status |-> IF Exists(listing_id) THEN 200 ELSE 404,
                detail |-> IF Exists(listing_id) THEN "" ELSE "Listing not found",
                db |-> listings, trace |-> <<>>]
    /\ UNCHANGED <<listings, nextId, users, settings, nonAppVars>>

\* The filter that lets every provided images value through, as the source does.
Passes(field, value) ==
    CASE field \in TextFields -> value # <<>> /\ Strip(value) # <<>>
      [] field = "price" -> value > 0
      [] field = "images" -> TRUE

\* payload.model_dump(exclude_unset=True, exclude_none=True), then the filter:
\* the fields that are applied.
FilteredFields(payload) == { f \in payload.fields : Passes(f, payload[f]) }

FilteredValue(field, value) == IF field \in TextFields THEN Strip(value) ELSE value

\* setattr(obj, field, value) for every filtered field, then the search vector.
ApplyUpdate(obj, payload) ==
    LET kept == FilteredFields(payload)
        new == [f \in DOMAIN obj |->
                   IF f \in kept THEN FilteredValue(f, payload[f]) ELSE obj[f]]
    IN  IF kept \cap TextFields # {}
        THEN [new EXCEPT !.search_vector = <<new.title, new.description, new.category>>]
        ELSE new

UpdateListing(user, listing_id, payload) ==
    /\ IF ~Exists(listing_id)
       THEN Reject("update", user, listing_id, payload, 404, "Listing not found")
       ELSE IF ~IsOwner(listings[listing_id], user)
       THEN Reject("update", user, listing_id, payload, 403, "Not owner")
       ELSE IF ~Verified(user)
       THEN Reject("update", user, listing_id, payload, 403, "User must be verified")
       ELSE /\ listings' = [listings EXCEPT
                               ![listing_id] = ApplyUpdate(listings[listing_id], payload)]
            /\ last' = Response("update", user, listing_id, payload, 200, "",
                                <<"commit">> \o
                                    IF FilteredFields(payload) # {}
                                    THEN <<"notify_listing_updated">>
                                    ELSE <<>>)
            /\ UNCHANGED nextId
    /\ UNCHANGED <<users, settings, nonAppVars>>

PatchStatus(user, listing_id, status) ==
    /\ IF ~Exists(listing_id)
       THEN Reject("patch_status", user, listing_id, status, 404, "Listing not found")
       ELSE IF ~IsOwner(listings[listing_id], user)
       THEN Reject("patch_status", user, listing_id, status, 403, "Not owner")
       ELSE IF status \notin {"ACTIVE", "SOLD", "ARCHIVED"}
       THEN Reject("patch_status", user, listing_id, status, 422, "Invalid status")
       ELSE /\ listings' = [listings EXCEPT ![listing_id].status = status]
            /\ last' = Response("patch_status", user, listing_id, status, 200, "",
                                <<"commit">>)
            /\ UNCHANGED nextId
    /\ UNCHANGED <<users, settings, nonAppVars>>

DeleteListing(user, listing_id) ==
    /\ IF ~Exists(listing_id)
       THEN Reject("delete", user, listing_id, "", 404, "Listing not found")
       ELSE IF ~IsOwner(listings[listing_id], user)
       THEN Reject("delete", user, listing_id, "", 403, "Not owner")
       ELSE IF ~Verified(user)
       THEN Reject("delete", user, listing_id, "", 403, "User must be verified")
       ELSE /\ listings' = [i \in DOMAIN listings \ {listing_id} |-> listings[i]]
            /\ last' = Response("delete", user, listing_id, "", 204, "", <<"commit">>)
            /\ UNCHANGED nextId
    /\ UNCHANGED <<users, settings, nonAppVars>>

\* The requests of the model.
Forms ==
    { [title |-> <<" ", "t">>, description |-> <<"d">>, category |-> <<"c">>,
       price |-> 1, images |-> imgs] : imgs \in { <<>>, <<"f">> } }

\* What a request may send in each field: a blank value and a value that the
\* filter accepts, or nothing (the field is not set, or None).
UNSET == <<"UNSET">>
FieldValues ==
    [title : { UNSET, <<>>, <<" ", "u", " ">> },
     description : { UNSET, <<" ">>, <<"v", " ">> },
     category : { UNSET, <<" ", " ">>, <<" ", "w">> },
     price : { -1, 0, 5 },
     priceSet : BOOLEAN,
     images : { UNSET, <<>>, <<"g">> }]

\* A payload: the fields that are set (and not None) and their values.
Payloads ==
    { [fields |-> { f \in TextFields \cup {"images"} : v[f] # UNSET }
                    \cup (IF v.priceSet THEN {"price"} ELSE {}),
       title |-> v.title, description |-> v.description, category |-> v.category,
       price |-> v.price, images |-> v.images] :
        v \in { w \in FieldValues : ~w.priceSet => w.price = 0 } }

\* The payloads of the update model: at most MaxFieldsSet fields are set.
SomePayloads == { q \in Payloads : Cardinality(q.fields) <= MaxFieldsSet }

\* The payloads of the ownership model: nothing set, a title, an empty images list.
FewPayloads ==
    { q \in Payloads :
        /\ q.fields \in { {}, {"title"}, {"images"} }
        /\ q.title # <<>>
        /\ q.images # <<"g">> }

Statuses == {"ACTIVE", "SOLD", "ARCHIVED", "DRAFT"}

ListingIds == 1..(MaxListings + 1)

\* A listing that exists when the model starts, owned by either user.
StoredListing(owner) ==
    Listing(<<"t">>, <<"d">>, <<"c">>, 1, <<<<"url", "f">>>>, owner.id)

InitApp ==
    /\ users = AppUsers
    /\ settings \in { [DefaultSettings EXCEPT !.STORAGE_BACKEND = b] : b \in {"LOCAL", "S3"} }
    /\ \/ listings = <<>> /\ nextId = 1
       \/ \E o \in AppUsers : listings = (1 :> StoredListing(o)) /\ nextId = 2
    /\ last = NoRequest
    /\ MigIdle
    /\ AiIdle
    /\ BootIdle

NextListings ==
    \/ \E u \in users, f \in Forms : CreateListing(u, f)
    \/ \E i \in ListingIds : GetListing(i)
    \/ \E u \in users, i \in ListingIds, q \in FewPayloads : UpdateListing(u, i, q)
    \/ \E u \in users, i \in ListingIds, st \in Statuses : PatchStatus(u, i, st)
    \/ \E u \in users, i \in ListingIds : DeleteListing(u, i)

SpecListings == InitApp /\ [][NextListings]_vars

\* update_listing alone, on every payload.
InitUpdate ==
    /\ users = AppUsers
    /\ settings = DefaultSettings
    /\ \E o \in AppUsers : listings = (1 :> StoredListing(o))
    /\ nextId = 2
    /\ last = NoRequest
    /\ MigIdle
    /\ AiIdle
    /\ BootIdle

NextUpdate ==
    \E u \in users, i \in DOMAIN listings, q \in SomePayloads : UpdateListing(u, i, q)

SpecUpdate == InitUpdate /\ [][NextUpdate]_vars

-----------------------------------------------------------------------------
(* Properties of the listing endpoints *)

\* The listing the last request named, as it was when the request arrived.
LastBefore == IF last.id \in DOMAIN last.db THEN last.db[last.id] ELSE NoListing

\* The last request changed or removed the listing it named.
LastTouched ==
    /\ LastBefore # NoListing
    /\ last.id \notin DOMAIN listings \/ listings[last.id] # LastBefore

\* C6: update_listing, patch_status and delete_listing change or remove a
\* listing only for its owner; on an existing listing any other user gets
\* 403 'Not owner' and nothing changes; on a listing id that does not exist the
\* answer is 404, whoever asks.
C6_OnlyOwnerChanges ==
    last.op \in {"update", "patch_status", "delete"} =>
        /\ LastBefore = NoListing =>
              last.status = 404 /\ last.detail = "Listing not found"
                 /\ listings = last.db
        /\ (LastBefore # NoListing /\ LastBefore.owner_id # last.user) =>
              last.status = 403 /\ last.detail = "Not owner" /\ listings = last.db
        /\ LastTouched => LastBefore.owner_id = last.user
        /\ \A i \in DOMAIN last.db \ {last.id} :
              i \in DOMAIN listings /\ listings[i] = last.db[i]

\* C6 witness: the verified user a asked to delete the listing of b and got
\* 403 'Not owner'.
C6_Witness ==
    /\ last.op = "delete"
    /\ last.verified
    /\ LastBefore # NoListing
    /\ LastBefore.owner_id # last.user
    /\ last.status = 403
    /\ last.detail = "Not owner"

\* C7 as stated: create_listing, update_listing and delete_listing by an
\* unverified user are rejected with 403 'User must be verified' and have no
\* effect.
C7_UnverifiedAlways403Verified ==
    (last.op \in {"create", "update", "delete"} /\ ~last.verified) =>
        /\ last.status = 403
        /\ last.detail = "User must be verified"
        /\ listings = last.db
        /\ last.trace = <<>>

\* C7 amended: create_listing, update_listing and delete_listing by an
\* unverified user are rejected and have no effect (no row created, changed or
\* deleted, no upload, no notification): create_listing with 403 'User must be
\* verified'; update_listing and delete_listing with 404 when the listing does
\* not exist, with 403 'Not owner' when the user does not own it, and with 403
\* 'User must be verified' when the user owns it.
C7_UnverifiedRejected ==
    (last.op \in {"create", "update", "delete"} /\ ~last.verified) =>
        /\ listings = last.db
        /\ last.trace = <<>>
        /\ IF last.op # "create" /\ LastBefore = NoListing
           THEN last.status = 404 /\ last.detail = "Listing not found"
           ELSE IF last.op # "create" /\ LastBefore.owner_id # last.user
           THEN last.status = 403 /\ last.detail = "Not owner"
           ELSE last.status = 403 /\ last.detail = "User must be verified"

\* C7 witness: the unverified user b asked to update its own listing and got
\* 403 'User must be verified'.
C7_Witness ==
    /\ last.op = "update"
    /\ ~last.verified
    /\ LastBefore # NoListing
    /\ LastBefore.owner_id = last.user
    /\ last.status = 403
    /\ last.detail = "User must be verified"

Blanks(n) == [i \in 1..n |-> " "]

\* x is v without its leading and trailing blanks.
IsStripped(x, v) ==
    /\ x = <<>> \/ (x[1] # " " /\ x[Len(x)] # " ")
    /\ \E i, j \in 0..Len(v) : v = Blanks(i) \o x \o Blanks(j)

IsBlank(v) == \A i \in 1..Len(v) : v[i] = " "

\* C10 as stated: an update leaves a field unchanged when the field is not in
\* the payload, when a title, description or category is empty or blank, when
\* the price is not greater than 0 and when images is an empty list; an
\* accepted title, description or category is stored stripped.
C10_EmptyInputPreserves ==
    (last.op = "update" /\ last.status = 200) =>
        LET old == LastBefore
            new == listings[last.id]
            q == last.payload
        IN  /\ \A f \in TextFields :
                  IF f \in q.fields /\ ~IsBlank(q[f])
                  THEN IsStripped(new[f], q[f])
                  ELSE new[f] = old[f]
            /\ IF "price" \in q.fields /\ q.price > 0
               THEN new.price = q.price
               ELSE new.price = old.price
            /\ IF "images" \in q.fields /\ q.images # <<>>
               THEN new.images = q.images
               ELSE new.images = old.images
            /\ new.owner_id = old.owner_id /\ new.status = old.status

\* The payload carries at least one value that is not empty input: a title,
\* description or category that is not blank, a price greater than 0, or an
\* images list that is not empty.
HasAcceptedInput(q) ==
    \/ \E f \in TextFields : f \in q.fields /\ ~IsBlank(q[f])
    \/ "price" \in q.fields /\ q.price > 0
    \/ "images" \in q.fields /\ q.images # <<>>

\* How often a step occurs in a trace, and whether every occurrence of a step
\* comes after the commit.
Count(t, step) == Cardinality({ i \in 1..Len(t) : t[i] = step })

AfterCommit(t, step) ==
    \A j \in 1..Len(t) : t[j] = step => \E i \in 1..(j - 1) : t[i] = "commit"

Notifications == {"notify_listing_created", "notify_listing_updated"}

\* C11 as stated: a successful create_listing calls notify_listing_created
\* exactly once, after the commit of the new listing; a successful
\* update_listing calls notify_listing_updated once, after the commit, when the
\* payload carries an accepted value, and not at all when every value of the
\* payload is empty, blank or rejected; no other request notifies.
C11_NotifyFollowsChange ==
    last.op \in {"create", "update", "patch_status", "delete", "get"} =>
        /\ \A n \in Notifications : AfterCommit(last.trace, n)
        /\ Count(last.trace, "notify_listing_created") =
              (IF last.op = "create" /\ last.status = 200 THEN 1 ELSE 0)
        /\ (last.op = "create" /\ last.status = 200) => last.id \in DOMAIN listings
        /\ Count(last.trace, "notify_listing_updated") =
              (IF last.op = "update" /\ last.status = 200
                     /\ HasAcceptedInput(last.payload)
               THEN 1 ELSE 0)

\* The request that shows C11 failing: the verified owner sent only an empty
\* images list, and notify_listing_updated was called.
C11_EmptyImagesNotified ==
    /\ last.op = "update"
    /\ last.status = 200
    /\ last.payload.fields = {"images"}
    /\ last.payload.images = <<>>
    /\ last.trace = <<"commit", "notify_listing_updated">>

\* C12 as stated: patch_status asked by the owner of the listing, when the
\* owner is not verified, is rejected with 403 and the status of the listing
\* stays as it was.
C12_PatchStatusNeedsVerified ==
    (/\ last.op = "patch_status"
     /\ ~last.verified
     /\ LastBefore # NoListing
     /\ LastBefore.owner_id = last.user) =>
        /\ last.status = 403
        /\ listings = last.db

\* The request that shows C12 failing: the owner of a listing, not verified,
\* asked for the status SOLD, got 200, and the listing is SOLD.
C12_UnverifiedOwnerSold ==
    /\ last.op = "patch_status"
    /\ ~last.verified
    /\ LastBefore # NoListing
    /\ LastBefore.owner_id = last.user
    /\ LastBefore.status = "ACTIVE"
    /\ last.payload = "SOLD"
    /\ last.status = 200
    /\ listings[last.id].status = "SOLD"

-----------------------------------------------------------------------------
(* The AI endpoints *)

Endpoints == {"price-suggest", "duplicate-check", "recommend"}

\* A copy-paste slip: every endpoint tests the price-suggestion flag.
FlagEnabledPriceOnly(s, endpoint) == s.AI_PRICE_SUGGEST_ENABLED

\* The feature flag each endpoint tests first.
FlagEnabled(s, endpoint) ==
    CASE endpoint = "price-suggest" -> s.AI_PRICE_SUGGEST_ENABLED
      [] endpoint = "duplicate-check" -> s.AI_DUPLICATE_CHECK_ENABLED
      [] endpoint = "recommend" -> s.AI_RECOMMEND_ENABLED

\* What the call of the AI service does: it returns a result, or it raises.
ServiceOutcomes == {"ok", "timeout", "http_503", "bad_result"}

AiResponse(endpoint, service, status, detail, sent) ==
    [endpoint |-> endpoint, service |-> service, status |-> status,
     detail |-> detail, sent |-> sent, calls0 |-> ai.calls, queries0 |-> ai.queries]

Disabled(endpoint, service, detail) ==
    ai' = [ai EXCEPT !.resp = AiResponse(endpoint, service, 503, <<detail>>, {})]

\* try: result = await ai_service...; except Exception as e: raise 500
Called(endpoint, service, queried, sent) ==
    ai' = [calls |-> ai.calls + 1,
           queries |-> ai.queries + (IF queried THEN 1 ELSE 0),
           resp |-> IF service = "ok"
                    THEN AiResponse(endpoint, service, 200, <<>>, sent)
                    ELSE AiResponse(endpoint, service, 500,
                                    <<"AI service error:", service>>, sent)]

SuggestPrice(service) ==
    /\ ai.calls < MaxAiCalls
    /\ IF ~FlagEnabled(settings, "price-suggest")
       THEN Disabled("price-suggest", service, "Price suggestion service is disabled")
       ELSE Called("price-suggest", service, FALSE, {})
    /\ UNCHANGED nonAiVars

\* The listings of the request's category, as {id, title, description}.
CheckDuplicate(category, service) ==
    /\ ai.calls < MaxAiCalls
    /\ IF ~FlagEnabled(settings, "duplicate-check")
       THEN Disabled("duplicate-check", service, "Duplicate check service is disabled")
       ELSE Called("duplicate-check", service, TRUE,
                   { [id |-> i, title |-> listings[i].title,
                      description |-> listings[i].description] :
                       i \in { j \in DOMAIN listings : listings[j].category = category } })
    /\ UNCHANGED nonAiVars

\* The ACTIVE listings, as {id, title, category, price}.
RecommendListings(service) ==
    /\ ai.calls < MaxAiCalls
    /\ IF ~FlagEnabled(settings, "recommend")
       THEN Disabled("recommend", service, "Recommendation service is disabled")
       ELSE Called("recommend", service, TRUE,
                   { [id |-> i, title |-> listings[i].title,
                      category |-> listings[i].category, price |-> listings[i].price] :
                       i \in { j \in DOMAIN listings : listings[j].status = "ACTIVE" } })
    /\ UNCHANGED nonAiVars

InitAI ==
    /\ users = AppUsers
    /\ settings \in { [DefaultSettings EXCEPT !.AI_PRICE_SUGGEST_ENABLED = f[1],
                                              !.AI_DUPLICATE_CHECK_ENABLED = f[2],
                                              !.AI_RECOMMEND_ENABLED = f[3]] :
                        f \in [1..3 -> BOOLEAN] }
    /\ listings \in { <<>>,
                      <<StoredListing(AppUser("a", TRUE))>>,
                      <<StoredListing(AppUser("a", TRUE)),
                        [StoredListing(AppUser("b", FALSE)) EXCEPT
                            !.status = "SOLD", !.category = <<"k">>]>> }
    /\ nextId = Len(listings) + 1
    /\ last = NoRequest
    /\ MigIdle
    /\ AiIdle
    /\ BootIdle

NextAI ==
    \/ \E sv \in ServiceOutcomes : SuggestPrice(sv)
    \/ \E sv \in ServiceOutcomes, c \in { <<"c">>, <<"k">> } : CheckDuplicate(c, sv)
    \/ \E sv \in ServiceOutcomes : RecommendListings(sv)

SpecAI == InitAI /\ [][NextAI]_vars

\* C8: an AI endpoint whose feature flag is false answers 503 and neither
\* queries the listings table nor calls the AI service; with the flag true, a
\* call of the AI service that raises is answered 500 with a detail that starts
\* 'AI service error:', never 503.
C8_FlagOffIs503RaiseIs500 ==
    ai.resp.endpoint \in Endpoints =>
        LET r == ai.resp
            on == CASE r.endpoint = "price-suggest" -> settings.AI_PRICE_SUGGEST_ENABLED
                    [] r.endpoint = "duplicate-check" -> settings.AI_DUPLICATE_CHECK_ENABLED
                    [] r.endpoint = "recommend" -> settings.AI_RECOMMEND_ENABLED
        IN  /\ ~on => r.status = 503 /\ ai.calls = r.calls0 /\ ai.queries = r.queries0
            /\ (on /\ r.service # "ok") =>
                  /\ r.status = 500
                  /\ r.detail # <<>> /\ r.detail[1] = "AI service error:"
                  /\ ai.calls = r.calls0 + 1
            /\ r.status = 503 => ~on

\* C8 witness: with its flag on, duplicate-check queried the listings, the AI
\* service raised its own 503, and the answer was 500.
C8_Witness ==
    /\ ai.resp.endpoint = "duplicate-check"
    /\ settings.AI_DUPLICATE_CHECK_ENABLED
    /\ ~settings.AI_PRICE_SUGGEST_ENABLED
    /\ ai.resp.service = "http_503"
    /\ ai.resp.status = 500
    /\ ai.queries = ai.resp.queries0 + 1

-----------------------------------------------------------------------------
(* create_single_admin, run at the startup of every application instance *)

\* str.lower() on the letters of the model.
LowerChar(ch) == CASE ch = "A" -> "a" [] ch = "D" -> "d" [] OTHER -> ch
Lower(s) == [i \in 1..Len(s) |-> LowerChar(s[i])]

\* settings.ADMIN_EMAIL.split("@")[0].lower()
AdminUsername(email) == Lower(SplitPart(email, "@", 1))

NewAdmin(email) ==
    [id |-> AdminUsername(email), new_id |-> ABSENT, email |-> email,
     was_id |-> AdminUsername(email), is_admin |-> TRUE, is_verified |-> TRUE]

\* A users table without its primary key: no insert is ever refused.
PkConflictNever(us, row) == FALSE

\* users.id is the primary key: an insert of a second row with the id is refused.
PkConflict(us, row) == \E u \in us : u.id = row.id

Instances == 1..MaxInstances

\* admin = db.query(User).filter(User.is_admin == True).first()
QueryAdmin(i) ==
    /\ boot.inst[i].pc = "down"
    /\ boot' = [boot EXCEPT !.inst[i] =
                   [pc |-> "queried", found |-> \E u \in users : u.is_admin]]
    /\ UNCHANGED <<users, nonBootVars>>

\* if not admin: db.add(new_admin); db.commit()  (an IntegrityError is re-raised)
\* else: skip
AddAdmin(i) ==
    /\ boot.inst[i].pc = "queried"
    /\ IF boot.inst[i].found
       THEN /\ boot' = [boot EXCEPT !.inst[i].pc = "started"]
            /\ UNCHANGED users
       ELSE IF PkConflict(users, NewAdmin(settings.ADMIN_EMAIL))
       THEN /\ boot' = [boot EXCEPT !.inst[i].pc = "failed"]
            /\ UNCHANGED users
       ELSE /\ users' = users \cup {NewAdmin(settings.ADMIN_EMAIL)}
            /\ boot' = [boot EXCEPT !.inst[i].pc = "created",
                                    !.inserted = boot.inserted + 1]
    /\ UNCHANGED nonBootVars

\* The instance stops (or its startup has failed) and is started again.
Restart(i) ==
    /\ boot.inst[i].pc \in {"started", "created", "failed"}
    /\ boot' = [boot EXCEPT !.inst[i] = [pc |-> "down", found |-> FALSE]]
    /\ UNCHANGED <<users, nonBootVars>>

\* The users table the instances find: empty, or with users that are not
\* admins (one of them may hold the id the bootstrap wants), or with an admin.
BootUsers ==
    SUBSET { AppUser("a", TRUE), AppUser("b", FALSE),
             [AppUser("ad", TRUE) EXCEPT !.is_admin = FALSE],
             [AppUser("r", TRUE) EXCEPT !.is_admin = TRUE] }

InitBoot ==
    /\ users \in BootUsers
    /\ settings = DefaultSettings
    /\ boot = [inst |-> [i \in Instances |-> [pc |-> "down", found |-> FALSE]],
               inserted |-> 0, users0 |-> users]
    /\ AppIdle
    /\ MigIdle
    /\ AiIdle

NextBoot ==
    \/ \E i \in Instances : QueryAdmin(i)
    \/ \E i \in Instances : AddAdmin(i)
    \/ \E i \in Instances : Restart(i)

SpecBoot == InitBoot /\ [][NextBoot]_vars

\* C9: over any startups of the instances, also concurrent ones, the bootstrap
\* inserts at most one users row, with id the lower-cased local part of
\* ADMIN_EMAIL, is_admin and is_verified true; and a startup that has found an
\* admin leaves the users table as it is.
C9_AtMostOneAdminInserted ==
    /\ boot.inserted <= 1
    /\ boot.users0 \subseteq users
    /\ Cardinality(users \ boot.users0) = boot.inserted
    /\ \A u \in users \ boot.users0 :
          /\ u.email = settings.ADMIN_EMAIL
          /\ u.id = <<"a", "d">>
          /\ u.is_admin /\ u.is_verified
    /\ \A i \in Instances :
          boot.inst[i].found => boot.inst[i].pc \in {"queried", "started"}
    /\ (\E u \in boot.users0 : u.is_admin) => users = boot.users0

\* C9 witness: two instances both found no admin; one created it and the insert
\* of the other was refused.
C9_Witness ==
    /\ boot.inserted = 1
    /\ \E i, j \in Instances :
          /\ boot.inst[i].pc = "created"
          /\ boot.inst[j].pc = "failed"
          /\ ~boot.inst[j].found

=============================================================================
